---- MODULE Spec2Model ----
(***************************************************************************)
(* moproxy: the connection-establishment core.                             *)
(*                                                                         *)
(* Two entry points are modelled side by side:                             *)
(*   "lib"  - src/src/client.rs: NewClient::from_socket -> retrive_dest -> *)
(*            Connectable::connect_server -> ConnectedClient::serve        *)
(*   "main" - src/src/main.rs: connect_server (sequential attempts) and    *)
(*            the accept closure of main (conn_open, piping, conn_close)   *)
(* client/connect.rs (try_connect_all), client/read.rs, client/tls.rs,     *)
(* proxy/copy.rs and the counters of monitor/proxy are modelled from the   *)
(* design document.                                                        *)
(*                                                                         *)
(* Specifications:                                                         *)
(*   Spec          - every client, both entry points                       *)
(*   SpecOne       - one client in full; SpecOneLive adds the polling of   *)
(*                   its task by the event loop                            *)
(*   SpecHello     - the pre-connect steps over every hello prefix         *)
(*   SpecTimeout   - the race against connects that take a known time      *)
(*   SpecResort    - races while the monitor re-orders the shared list     *)
(*   SpecKeepalive - serving after set_keepalive failed                    *)
(***************************************************************************)
EXTENDS Integers, Sequences, FiniteSets, TLC

\* ------------------------------------------------------------------ bounds
NClients == 2
MaxServers == 2
MaxParallel == 2
MaxRx == 1
MaxDelay == 2

\* ------------------------------------------------------- program constants
\* vec![0u8; 2048] handed to read_with_timeout
HelloBufLen == 2048
\* Duration::from_secs(3), the least time an attempt is given
MinWaitSecs == 3

Clients == 1..NClients
ServerIds == 1..MaxServers

None == <<"None">>
Some(x) == <<"Some", x>>
IsSome(o) == o[1] = "Some"
Unwrap(o) == o[2]

Min(a, b) == IF a <= b THEN a ELSE b
Max(a, b) == IF a >= b THEN a ELSE b

Range(s) == {s[i] : i \in 1..Len(s)}
Take(s, n) == SubSeq(s, 1, n)
Drop(s, n) == SubSeq(s, n + 1, Len(s))

\* all orderings of the server ids 1..n
Perms(n) == {p \in [1..n -> 1..n] : \A i, j \in 1..n : i # j => p[i] # p[j]}

\* ---------------------------------------------------------- TLS prefix parse
\* A reduced record layout that keeps the parser's length checks:
\*   data[1] content type (22 = handshake)
\*   data[2], data[3] record version major, minor (>= 3.1, i.e. 0x0301)
\*   data[4] declared record length L (bytes that follow in the record)
\*   data[5] handshake type (1 = ClientHello)
\*   then (type, value) extension pairs up to the declared length:
\*   type 0 = server_name (value: host id, ASCII iff < 128), 42 = early_data
ParseErr == [ok |-> FALSE, server_name |-> None, early_data |-> FALSE]

RECURSIVE ParseExts(_, _)
ParseExts(exts, acc) ==
    IF exts = <<>> THEN acc
    ELSE IF Len(exts) = 1 THEN ParseErr
    ELSE IF exts[1] = 0 /\ exts[2] >= 128 THEN ParseErr
    ELSE ParseExts(Drop(exts, 2),
            IF exts[1] = 0 /\ ~IsSome(acc.server_name)
               THEN [acc EXCEPT !.server_name = Some(exts[2])]
            ELSE IF exts[1] = 42 THEN [acc EXCEPT !.early_data = TRUE]
            ELSE acc)

parse_client_hello(data) ==
    IF Len(data) < 5 THEN ParseErr
    ELSE IF data[1] # 22 THEN ParseErr
    ELSE IF data[2] < 3 \/ (data[2] = 3 /\ data[3] < 1) THEN ParseErr
    ELSE IF data[4] < 1 \/ Len(data) < 4 + data[4] THEN ParseErr
    ELSE IF data[5] # 1 THEN ParseErr
    ELSE ParseExts(SubSeq(data, 6, 4 + data[4]),
                   [ok |-> TRUE, server_name |-> None, early_data |-> FALSE])

\* read_with_timeout(left, vec![0u8; 2048], 500ms): the byte count the read
\* returns when `arrived` bytes reached the socket before the deadline
ReadLen(arrived) == Min(arrived, HelloBufLen)

\* --------------------------------------------------- client byte streams
Http == <<71, 69, 84>>
HelloPlain == <<22, 3, 1, 1, 1>>
HelloSni == <<22, 3, 3, 3, 1, 0, 7>>
HelloEarly == <<22, 3, 3, 5, 1, 0, 7, 42, 0>>
HelloOld == <<22, 3, 0, 1, 1>>
HelloBadName == <<22, 3, 3, 3, 1, 0, 200>>
\* a record that declares more than the hello buffer can hold
HelloHuge == [i \in 1..(HelloBufLen + 2) |->
                IF i = 1 THEN 22 ELSE IF i = 2 THEN 3 ELSE IF i = 3 THEN 1
                ELSE IF i = 4 THEN HelloBufLen ELSE IF i = 5 THEN 1 ELSE 0]


\* ------------------------------------------------------------------- state
VARIABLES
    infos,   \* the shared upstream list in the monitor's current order
    stats,   \* per-upstream accounting counters
    env,     \* per client: what the peer sends and what the kernel reports
    task     \* per client: the client task's position and its objects' fields

vars == <<infos, stats, env, task>>

NoStats == [conn_open |-> 0, conn_close |-> 0, conn_error |-> 0, tx |-> 0, rx |-> 0]

\* Destination: literal address of a family, or a host name, plus the port
Dest(host, port) == [host |-> host, port |-> port]
NoDest == Dest(<<"unset">>, 0)

Idle ==
    [pc |-> "idle", entry |-> "none",
     lread |-> 0,                 \* bytes consumed from the client socket (left)
     dest |-> NoDest, list |-> <<>>,
     hello_len |-> 0, pending_data |-> None, allow_parallel |-> FALSE,
     n_parallel |-> 0, wait_response |-> FALSE, prefix |-> None,
     att |-> [u \in ServerIds |-> "untried"],
     launched |-> <<>>,           \* upstreams in the order their attempt started
     usock |-> [u \in ServerIds |-> <<>>],  \* client bytes written to each attempt's socket
     right |-> 0, server |-> 0,
     tx_bytes |-> 0, rx_bytes |-> 0,
     calls |-> <<>>,              \* conn_open / conn_close calls made by this task
     result |-> "none",           \* what the serving future resolved to
     lookups |-> <<>>]            \* original-destination lookups made for the client

OrigPorts == {80, 443}
\* what getsockopt(SO_ORIGINAL_DST / IP6T_SO_ORIGINAL_DST) and peer_addr return
OrigResults ==
    [peer_addr : BOOLEAN, dest4 : {None} \cup {Some(p) : p \in OrigPorts},
     dest6 : {None} \cup {Some(p) : p \in OrigPorts}]

OrigOk == [peer_addr |-> TRUE, dest4 |-> Some(443), dest6 |-> None]
OrigNone == [peer_addr |-> TRUE, dest4 |-> None, dest6 |-> None]
OrigV6 == [peer_addr |-> TRUE, dest4 |-> None, dest6 |-> Some(80)]

\* What an upstream's connect (TCP connect and proxy handshake) does: it
\* resolves to `res` after `at` seconds. The longest an attempt is given is
\* 2 * MaxDelay, so MaxTook lets a connect outlast every timeout.
MaxTook == 2 * MaxDelay + 1
ConnOutcomes == [res : {"Ok", "Err"}, at : 0..MaxTook]

\* no latency known for any upstream; a connect that may succeed or fail,
\* at once (a later failure or a timeout ends the attempt in the same way)
NoDelay == [u \in ServerIds |-> None]
AnyConn == [u \in ServerIds |-> {[res |-> r, at |-> 0] : r \in {"Ok", "Err"}}]

\* what set_keepalive returns on the client socket and on the upstream socket
KeepaliveResults == [left : {"Ok", "Err"}, right : {"Ok", "Err"}]
KeepaliveOk == [left |-> "Ok", right |-> "Ok"]

\* A client's environment:
\*   stream  - the bytes the client sends, in order
\*   arrive  - how many of them reach the socket within the hello window
\*   mss     - the largest partial read the splice sees (0: whole reads only)
\*   reply   - how many bytes the upstream sends back during the splice
\*   orig    - the results of the original-destination and peer lookups
\*   n_parallel - the parallelism the caller asks connect_server for
\*   delay   - per upstream, the latency in the snapshot's info, if any
\*   conn    - per upstream, the outcomes its connect may have
\*   keepalive - the results of set_keepalive on the committed pair
Envs(streams, arrives, msss, replies, origs, parallels) ==
    {e \in [stream : streams, arrive : arrives, mss : msss,
            reply : replies, orig : origs, n_parallel : parallels,
            delay : {NoDelay}, conn : {AnyConn}, keepalive : {KeepaliveOk}] :
        e.arrive <= Len(e.stream)}

QuietEnv ==
    [stream |-> <<>>, arrive |-> 0, mss |-> 0, reply |-> 0, orig |-> OrigOk,
     n_parallel |-> 1, delay |-> NoDelay, conn |-> AnyConn,
     keepalive |-> KeepaliveOk]

\* the first client draws its environment from `envs`, the others send
\* nothing; `lists` are the orders the monitor may have put the upstream list in
InitWith(envs, lists) ==
    /\ infos \in lists
    /\ stats = [u \in ServerIds |-> NoStats]
    /\ \E e \in envs : env = [c \in Clients |-> IF c = 1 THEN e ELSE QuietEnv]
    /\ task = [c \in Clients |-> Idle]

AllLists == UNION {Perms(n) : n \in 1..MaxServers}
SortedLists == {[i \in 1..n |-> i] : n \in 1..MaxServers}

\* the sizes one copy step can move when `left` bytes are ready
Chunks(left, mss) == {n \in 1..left : n = left \/ n <= mss}

\* ---------------------------------------------------------- accounting hooks
update_stats_conn_open(st, u) ==
    [st EXCEPT ![u].conn_open = @ + 1]

update_stats_conn_close(st, u, error) ==
    [st EXCEPT ![u].conn_close = @ + 1,
               ![u].conn_error = IF error THEN @ + 1 ELSE @]

add_traffic(st, u, tx, rx) ==
    [st EXCEPT ![u].tx = @ + tx, ![u].rx = @ + rx]

\* an accounting call made by a client task, and its effect on the counters
OpenCall(u) == [op |-> "open", u |-> u, error |-> FALSE, tx |-> 0, rx |-> 0]
CloseCall(u, error, tx, rx) == [op |-> "close", u |-> u, error |-> error, tx |-> tx, rx |-> rx]

ApplyCall(st, call) ==
    IF call.op = "open" THEN update_stats_conn_open(st, call.u)
    ELSE add_traffic(update_stats_conn_close(st, call.u, call.error),
                     call.u, call.tx, call.rx)

RECURSIVE ApplyCalls(_, _)
ApplyCalls(st, calls) ==
    IF calls = <<>> THEN st
    ELSE ApplyCalls(ApplyCall(st, Head(calls)), Tail(calls))


\* ------------------------------------------------ client.rs: pre-connect
\* from_socket taking the IPv6 result whenever there is one
from_socket_v6_first(orig) ==
    IF ~orig.peer_addr THEN None
    ELSE IF IsSome(orig.dest6) THEN Some(Dest(<<"v6">>, Unwrap(orig.dest6)))
    ELSE IF IsSome(orig.dest4) THEN Some(Dest(<<"v4">>, Unwrap(orig.dest4)))
    ELSE None

\* NewClient::from_socket: peer_addr joined with dest4.or_else(dest6)
from_socket(orig) ==
    IF ~orig.peer_addr THEN None
    ELSE IF IsSome(orig.dest4) THEN Some(Dest(<<"v4">>, Unwrap(orig.dest4)))
    ELSE IF IsSome(orig.dest6) THEN Some(Dest(<<"v6">>, Unwrap(orig.dest6)))
    ELSE None

\* the lookups from_socket makes while it builds its futures: both
\* future::result(..) arguments are evaluated before or_else is applied
from_socket_lookups == <<"v4", "v6">>

\* the 2048-byte buffer after a read of `len` bytes of `stream`
ReadBuf(stream, len) ==
    [i \in 1..HelloBufLen |-> IF i <= len THEN stream[i] ELSE 0]

\* retrive_dest with the parser's Err arm yielding true
retrive_dest_err_allows(dest, data, len) ==
    IF len = 0
    THEN [dest |-> dest, allow_parallel |-> FALSE, pending_data |-> None]
    ELSE [dest |-> dest, allow_parallel |-> TRUE,
          pending_data |-> Some(Take(data, len))]

\* retrive_dest keeping the prefix only when it parsed
retrive_dest_err_drops(dest, data, len) ==
    IF len = 0 \/ ~parse_client_hello(Take(data, len)).ok
    THEN [dest |-> dest, allow_parallel |-> FALSE, pending_data |-> None]
    ELSE [dest |-> dest, allow_parallel |-> TRUE,
          pending_data |-> Some(Take(data, len))]

\* retrive_dest giving the host name the TLS port instead of dest.port
retrive_dest_tls_port(dest, data, len) ==
    IF len = 0
    THEN [dest |-> dest, allow_parallel |-> FALSE, pending_data |-> None]
    ELSE LET truncated == Take(data, len)
             hello == parse_client_hello(truncated)
         IN [dest |-> IF hello.ok /\ IsSome(hello.server_name)
                         THEN Dest(<<"name", Unwrap(hello.server_name)>>, 443)
                         ELSE dest,
             allow_parallel |-> hello.ok,
             pending_data |-> Some(truncated)]

\* retrive_dest treating the empty read as a hello that may be duplicated
retrive_dest_zero_allows(dest, data, len) ==
    LET truncated == Take(data, len)
        hello == parse_client_hello(truncated)
    IN [dest |-> IF hello.ok /\ IsSome(hello.server_name)
                    THEN Dest(<<"name", Unwrap(hello.server_name)>>, dest.port)
                    ELSE dest,
        allow_parallel |-> len = 0 \/ hello.ok,
        pending_data |-> IF len = 0 THEN None ELSE Some(truncated)]

\* NewClient::retrive_dest, the closure applied to the read's (left, data, len)
retrive_dest(dest, data, len) ==
    IF len = 0
    THEN [dest |-> dest, allow_parallel |-> FALSE, pending_data |-> None]
    ELSE LET truncated == Take(data, len)
             hello == parse_client_hello(truncated)
         IN [dest |-> IF hello.ok /\ IsSome(hello.server_name)
                         THEN Dest(<<"name", Unwrap(hello.server_name)>>, dest.port)
                         ELSE dest,
             allow_parallel |-> hello.ok,
             pending_data |-> Some(truncated)]

\* ------------------------------------------------ attempt timeout
\* timer.timeout(conn, wait): the connect's own result if it resolves within
\* `wait`, the timer's error otherwise
timer_timeout(conn, wait) == IF conn.at <= wait THEN conn.res ELSE "Err"

\* the time try_connect_all gives one attempt
attempt_wait(delay) ==
    IF IsSome(delay) THEN Max(MinWaitSecs, Unwrap(delay) * 2) ELSE MinWaitSecs

\* ------------------------------------------------ race dispatcher
\* try_connect_all: the initial batch, the first k upstreams of the list
StartBatch(t, k) ==
    LET first == Take(t.list, Min(k, Len(t.list)))
    IN [t EXCEPT !.launched = first,
                 !.att = [u \in ServerIds |->
                            IF u \in Range(first) THEN "inflight" ELSE "untried"]]

\* one attempt completed the handshake (and wrote the shared prefix): it wins,
\* every other attempt in flight is cancelled and its socket closed
AttemptWon(t, u) ==
    [t EXCEPT !.att = [v \in ServerIds |->
                          IF v = u THEN "won"
                          ELSE IF t.att[v] = "inflight" THEN "cancelled"
                          ELSE t.att[v]],
              !.usock[u] = IF IsSome(t.prefix) THEN Unwrap(t.prefix) ELSE <<>>]

\* one attempt failed: start the next upstream of the list not yet tried
AttemptFailed(t, u) ==
    LET n == Len(t.launched)
    IN IF n < Len(t.list)
       THEN [t EXCEPT !.att[u] = "failed",
                      !.att[t.list[n + 1]] = "inflight",
                      !.launched = Append(@, t.list[n + 1])]
       ELSE [t EXCEPT !.att[u] = "failed"]

InFlight(t) == {u \in ServerIds : t.att[u] = "inflight"}

\* ------------------------------------------------ client.rs: connect_server
\* NewClient::connect_server(self, n_parallel, wait_response, pending_data)
connect_server(t, n_parallel, wait_response, pending_data) ==
    StartBatch([t EXCEPT !.pc = "racing",
                         !.n_parallel = n_parallel,
                         !.wait_response = wait_response,
                         !.prefix = pending_data],
               n_parallel)

\* connect_result naming the list's first upstream instead of the winner
connect_result_head(t, u) ==
    IF u # 0
    THEN [Idle EXCEPT !.pc = "connected", !.entry = t.entry,
                      !.lread = t.lread, !.dest = t.dest,
                      !.right = u, !.server = Head(t.list),
                      !.att = t.att, !.launched = t.launched, !.usock = t.usock]
    ELSE [t EXCEPT !.pc = "alldown"]

\* the closures on try_connect_all's result: map builds the ConnectedClient
\* {left, right, dest, server} (the dispatcher's arguments are gone with it),
\* map_err logs "all proxy server down"
connect_result(t, u) ==
    IF u # 0
    THEN [Idle EXCEPT !.pc = "connected", !.entry = t.entry,
                      !.lread = t.lread, !.dest = t.dest,
                      !.right = u, !.server = u,
                      !.att = t.att, !.launched = t.launched, !.usock = t.usock]
    ELSE [t EXCEPT !.pc = "alldown"]

\* connect_server_new handing on the caller's n_parallel
connect_server_new_parallel(t, n_parallel) ==
    connect_server(t, Min(Len(t.list), n_parallel), FALSE, None)

\* impl Connectable for NewClient
connect_server_new(t, n_parallel) ==
    connect_server(t, 1, FALSE, None)

\* effective_parallel without the cap at the list's length
effective_parallel_uncapped(allow_parallel, list_len, n_parallel) ==
    IF allow_parallel THEN n_parallel ELSE 1

\* effective_parallel without the test of allow_parallel
effective_parallel_always(allow_parallel, list_len, n_parallel) ==
    Min(list_len, n_parallel)

\* the n_parallel handed on by impl Connectable for NewClientWithData
effective_parallel(allow_parallel, list_len, n_parallel) ==
    IF allow_parallel THEN Min(list_len, n_parallel) ELSE 1

\* connect_server_with_data handing on no pending data
connect_server_without_data(t, n_parallel) ==
    connect_server(t,
                   effective_parallel(t.allow_parallel, Len(t.list), n_parallel),
                   TRUE, None)

\* impl Connectable for NewClientWithData
connect_server_with_data(t, n_parallel) ==
    connect_server(t,
                   effective_parallel(t.allow_parallel, Len(t.list), n_parallel),
                   TRUE, t.pending_data)


\* ------------------------------------------------ client.rs: serve
\* left.set_keepalive(timeout).and(right.set_keepalive(timeout))
set_keepalive_both(ka) == IF ka.left = "Err" THEN "Err" ELSE ka.right

\* serve_open recording the connection on both keepalive arms
serve_open_twice(server, keepalive) == <<OpenCall(server), OpenCall(server)>>

\* serve_open returning at the keepalive error
serve_open_unless_keepalive(server, keepalive) ==
    IF set_keepalive_both(keepalive) = "Err" THEN <<>> ELSE <<OpenCall(server)>>

\* ConnectedClient::serve up to the call of pipe: the keepalive result only
\* decides whether a warning is logged, the conn_open call follows
serve_open(server, keepalive) == <<OpenCall(server)>>

\* serve_then with the Err arm returning without the accounting call
serve_then_err_unrecorded(server, result) ==
    IF result = "Ok" THEN <<CloseCall(server, FALSE, 0, 0)>>
    ELSE <<>>

\* the closure on pipe's result; pipe itself reports the traffic to `server`
serve_then(server, result) ==
    IF result = "Ok" THEN <<CloseCall(server, FALSE, 0, 0)>>
    ELSE <<CloseCall(server, TRUE, 0, 0)>>

\* what the future returned by serve resolves to: Ok(()) or Err(())
serve_result(result) == IF result = "Ok" THEN "Ok" ELSE "Err"

\* ------------------------------------------------ splice engine
\* one client -> upstream copy step of n bytes
pipe_tx(t, stream, n) ==
    [t EXCEPT !.lread = @ + n,
              !.usock[t.right] = @ \o SubSeq(stream, t.lread + 1, t.lread + n),
              !.tx_bytes = @ + n]

\* one upstream -> client copy step of n bytes
pipe_rx(t, n) == [t EXCEPT !.rx_bytes = @ + n]

\* ------------------------------------------------ main.rs
\* connect_server: peer_addr joined with get_original_dest (IPv4 only)
main_src_dst(orig) ==
    IF ~orig.peer_addr THEN None
    ELSE IF IsSome(orig.dest4) THEN Some(Dest(<<"v4">>, Unwrap(orig.dest4)))
    ELSE None

\* the lookup connect_server makes
main_lookups == <<"v4">>

\* main_wait giving an attempt twice the latency, however short
main_wait_twice(delay) ==
    IF IsSome(delay) THEN Unwrap(delay) * 2 ELSE MinWaitSecs

\* connect_server: the time the timer gives the attempt on `info`
main_wait(delay) ==
    IF IsSome(delay) THEN Max(MinWaitSecs, Unwrap(delay) * 2) ELSE MinWaitSecs

\* stream::iter_ok(infos).for_each: the attempt on the first info starts
main_for_each(t, dest) ==
    [t EXCEPT !.pc = "racing", !.dest = dest,
              !.launched = <<t.list[1]>>,
              !.att[t.list[1]] = "inflight"]

\* main_attempt_then with the Ok arm returning Ok(()), so that for_each goes on
\* to the next info while the connection is kept
main_attempt_then_goes_on(t, u, result) ==
    LET n == Len(t.launched)
        more == n < Len(t.list)
        next == IF more
                THEN [t EXCEPT !.att[t.list[n + 1]] = "inflight",
                               !.launched = Append(@, t.list[n + 1])]
                ELSE t
    IN IF result = "Ok"
       THEN [next EXCEPT !.att[u] = "won", !.right = u, !.server = u,
                         !.pc = IF more THEN "racing" ELSE "connected"]
       ELSE [next EXCEPT !.att[u] = "failed",
                         !.pc = IF more THEN "racing" ELSE "alldown"]

\* main_attempt_then giving up at the first failed attempt
main_attempt_then_gives_up(t, u, result) ==
    IF result = "Ok"
    THEN [Idle EXCEPT !.pc = "connected", !.entry = t.entry,
                      !.lread = t.lread, !.dest = t.dest,
                      !.right = u, !.server = u,
                      !.att = [t.att EXCEPT ![u] = "won"],
                      !.launched = t.launched, !.usock = t.usock]
    ELSE [t EXCEPT !.att[u] = "failed", !.pc = "alldown"]

\* main_attempt_then with the end of for_each not turned into "all down"
main_attempt_then_stalls(t, u, result) ==
    IF result = "Ok"
    THEN [Idle EXCEPT !.pc = "connected", !.entry = t.entry,
                      !.lread = t.lread, !.dest = t.dest,
                      !.right = u, !.server = u,
                      !.att = [t.att EXCEPT ![u] = "won"],
                      !.launched = t.launched, !.usock = t.usock]
    ELSE LET n == Len(t.launched)
         IN IF n < Len(t.list)
            THEN [t EXCEPT !.att[u] = "failed",
                           !.att[t.list[n + 1]] = "inflight",
                           !.launched = Append(@, t.list[n + 1])]
            ELSE [t EXCEPT !.att[u] = "failed"]

\* main_attempt_then taking the next upstream from the shared list as it is
\* now, not from the infos cloned when connect_server was called
main_attempt_then_shared_list(t, u, result) ==
    IF result = "Ok"
    THEN [Idle EXCEPT !.pc = "connected", !.entry = t.entry,
                      !.lread = t.lread, !.dest = t.dest,
                      !.right = u, !.server = u,
                      !.att = [t.att EXCEPT ![u] = "won"],
                      !.launched = t.launched, !.usock = t.usock]
    ELSE LET n == Len(t.launched)
         IN IF n < Len(infos)
            THEN [t EXCEPT !.att[u] = "failed",
                           !.att[infos[n + 1]] = "inflight",
                           !.launched = Append(@, infos[n + 1])]
            ELSE [t EXCEPT !.att[u] = "failed", !.pc = "alldown"]

\* timer.timeout(conn, wait).then(..) and the .then(..) on for_each's result
main_attempt_then(t, u, result) ==
    IF result = "Ok"
    THEN [Idle EXCEPT !.pc = "connected", !.entry = t.entry,
                      !.lread = t.lread, !.dest = t.dest,
                      !.right = u, !.server = u,
                      !.att = [t.att EXCEPT ![u] = "won"],
                      !.launched = t.launched, !.usock = t.usock]
    ELSE LET n == Len(t.launched)
         IN IF n < Len(t.list)
            THEN [t EXCEPT !.att[u] = "failed",
                           !.att[t.list[n + 1]] = "inflight",
                           !.launched = Append(@, t.list[n + 1])]
            ELSE [t EXCEPT !.att[u] = "failed", !.pc = "alldown"]

\* main: the keepalive result only decides whether a warning is logged,
\* then list.update_stats_conn_open(idx)
main_open(idx, keepalive) == <<OpenCall(idx)>>

\* main: the closure on piping's result (this hook takes no error flag)
main_then(idx, result, tx, rx) ==
    IF result = "Ok" THEN <<CloseCall(idx, FALSE, tx, rx)>>
    ELSE <<CloseCall(idx, FALSE, 0, 0)>>

\* main: what the spawned future resolves to
main_result(result) == IF result = "Ok" THEN "Ok" ELSE "Err"

\* ------------------------------------------------------------------ actions
SetTask(c, t) == task' = [task EXCEPT ![c] = t]

Record(t, calls) == [t EXCEPT !.calls = @ \o calls]

\* the task's future has resolved: its sockets, buffers and list are dropped;
\* what stays is what it reported
Finished(t, pc) ==
    [Idle EXCEPT !.pc = pc, !.entry = t.entry, !.server = t.server,
                 !.tx_bytes = t.tx_bytes, !.rx_bytes = t.rx_bytes,
                 !.calls = t.calls, !.result = t.result,
                 !.lookups = t.lookups]

\* listener.incoming(): a client is accepted and handed the list snapshot
Accept(c) ==
    /\ task[c].pc = "idle"
    /\ \E e \in {"lib", "main"} :
          SetTask(c, [task[c] EXCEPT !.pc = "accepted", !.entry = e, !.list = infos])
    /\ UNCHANGED <<infos, stats, env>>

FromSocket(c) ==
    /\ task[c].pc = "accepted" /\ task[c].entry = "lib"
    /\ LET r == from_socket(env[c].orig)
           t == [task[c] EXCEPT !.lookups = from_socket_lookups]
       IN IF IsSome(r)
          THEN SetTask(c, [t EXCEPT !.pc = "new", !.dest = Unwrap(r)])
          ELSE SetTask(c, Finished(t, "dropped"))
    /\ UNCHANGED <<infos, stats, env>>

RetriveDest(c) ==
    /\ task[c].pc = "new"
    /\ \/ LET len == ReadLen(env[c].arrive)
                 r == retrive_dest(task[c].dest, ReadBuf(env[c].stream, len), len)
             IN SetTask(c, [task[c] EXCEPT !.pc = "withdata",
                                           !.lread = len, !.hello_len = len,
                                           !.dest = r.dest,
                                           !.allow_parallel = r.allow_parallel,
                                           !.pending_data = r.pending_data])
       \/ SetTask(c, Finished(task[c], "dropped"))
    /\ UNCHANGED <<infos, stats, env>>

ConnectNew(c) ==
    /\ task[c].pc = "new"
    /\ SetTask(c, connect_server_new(task[c], env[c].n_parallel))
    /\ UNCHANGED <<infos, stats, env>>

ConnectWithData(c) ==
    /\ task[c].pc = "withdata"
    /\ SetTask(c, connect_server_with_data(task[c], env[c].n_parallel))
    /\ UNCHANGED <<infos, stats, env>>

RaceAttemptOk(c) ==
    /\ task[c].pc = "racing" /\ task[c].entry = "lib"
    /\ \E u \in InFlight(task[c]) :
          /\ \E conn \in env[c].conn[u] :
                timer_timeout(conn, attempt_wait(env[c].delay[u])) = "Ok"
          /\ SetTask(c, connect_result(AttemptWon(task[c], u), u))
    /\ UNCHANGED <<infos, stats, env>>

RaceAttemptFail(c) ==
    /\ task[c].pc = "racing" /\ task[c].entry = "lib"
    /\ \E u \in InFlight(task[c]) :
          /\ \E conn \in env[c].conn[u] :
                timer_timeout(conn, attempt_wait(env[c].delay[u])) = "Err"
          /\ LET t == AttemptFailed(task[c], u)
             IN SetTask(c, IF InFlight(t) = {} THEN connect_result(t, 0) ELSE t)
    /\ UNCHANGED <<infos, stats, env>>

\* Serve making the conn_close call before the pipe has run
Serve_closes_first(c) ==
    /\ task[c].pc = "connected" /\ task[c].entry = "lib"
    /\ LET calls == serve_open(task[c].server, env[c].keepalive)
                    \o serve_then(task[c].server, "Ok")
       IN /\ SetTask(c, Record([task[c] EXCEPT !.pc = "splicing"], calls))
          /\ stats' = ApplyCalls(stats, calls)
    /\ UNCHANGED <<infos, env>>

Serve(c) ==
    /\ task[c].pc = "connected" /\ task[c].entry = "lib"
    /\ LET calls == serve_open(task[c].server, env[c].keepalive)
       IN /\ SetTask(c, Record([task[c] EXCEPT !.pc = "splicing"], calls))
          /\ stats' = ApplyCalls(stats, calls)
    /\ UNCHANGED <<infos, env>>

PipeTx(c) ==
    /\ task[c].pc = "splicing"
    /\ \E n \in Chunks(Len(env[c].stream) - task[c].lread, env[c].mss) :
          /\ SetTask(c, pipe_tx(task[c], env[c].stream, n))
          /\ stats' = IF task[c].entry = "lib"
                         THEN add_traffic(stats, task[c].server, n, 0)
                         ELSE stats
    /\ UNCHANGED <<infos, env>>

PipeRx(c) ==
    /\ task[c].pc = "splicing"
    /\ \E n \in Chunks(env[c].reply - task[c].rx_bytes, env[c].mss) :
          /\ SetTask(c, pipe_rx(task[c], n))
          /\ stats' = IF task[c].entry = "lib"
                         THEN add_traffic(stats, task[c].server, 0, n)
                         ELSE stats
    /\ UNCHANGED <<infos, env>>

\* pipe returns Ok once both sides are at EOF, Err on an I/O error
PipeResults(c) ==
    {"Err"} \cup (IF /\ task[c].lread = Len(env[c].stream)
                     /\ task[c].rx_bytes = env[c].reply
                  THEN {"Ok"} ELSE {})

ServeDone(c) ==
    /\ task[c].pc = "splicing" /\ task[c].entry = "lib"
    /\ \E result \in PipeResults(c) :
          LET calls == serve_then(task[c].server, result)
              done == [Record(task[c], calls) EXCEPT !.result = serve_result(result)]
          IN /\ SetTask(c, Finished(done, "closed"))
             /\ stats' = ApplyCalls(stats, calls)
    /\ UNCHANGED <<infos, env>>

MainConnect(c) ==
    /\ task[c].pc = "accepted" /\ task[c].entry = "main"
    /\ LET r == main_src_dst(env[c].orig)
           t == [task[c] EXCEPT !.lookups = main_lookups]
       IN IF IsSome(r)
          THEN SetTask(c, main_for_each(t, Unwrap(r)))
          ELSE SetTask(c, Finished(t, "dropped"))
    /\ UNCHANGED <<infos, stats, env>>

MainAttemptDone(c) ==
    /\ task[c].pc = "racing" /\ task[c].entry = "main"
    /\ \E u \in InFlight(task[c]) :
          \E conn \in env[c].conn[u] :
              LET result == timer_timeout(conn, main_wait(env[c].delay[u]))
              IN SetTask(c, main_attempt_then(task[c], u, result))
    /\ UNCHANGED <<infos, stats, env>>

MainServe(c) ==
    /\ task[c].pc = "connected" /\ task[c].entry = "main"
    /\ LET calls == main_open(task[c].server, env[c].keepalive)
       IN /\ SetTask(c, Record([task[c] EXCEPT !.pc = "splicing"], calls))
          /\ stats' = ApplyCalls(stats, calls)
    /\ UNCHANGED <<infos, env>>

MainDone(c) ==
    /\ task[c].pc = "splicing" /\ task[c].entry = "main"
    /\ \E result \in PipeResults(c) :
          LET calls == main_then(task[c].server, result,
                                 task[c].tx_bytes, task[c].rx_bytes)
              done == [Record(task[c], calls) EXCEPT !.result = main_result(result)]
          IN /\ SetTask(c, Finished(done, "closed"))
             /\ stats' = ApplyCalls(stats, calls)
    /\ UNCHANGED <<infos, env>>

\* ------------------------------------------------------------ specifications
\* every client runs; the first may send a hello, whole or not in time
Init ==
    InitWith(Envs({HelloPlain}, {0, Len(HelloPlain)}, {0}, {MaxRx},
                  {OrigOk, OrigNone}, {MaxParallel}),
             SortedLists)

\* the steps of one client's task
Step(c) ==
    \/ Accept(c)
    \/ FromSocket(c)
    \/ RetriveDest(c)
    \/ ConnectNew(c)
    \/ ConnectWithData(c)
    \/ RaceAttemptOk(c)
    \/ RaceAttemptFail(c)
    \/ Serve(c)
    \/ PipeTx(c)
    \/ PipeRx(c)
    \/ ServeDone(c)
    \/ MainConnect(c)
    \/ MainAttemptDone(c)
    \/ MainServe(c)
    \/ MainDone(c)

Next == \E c \in Clients : Step(c)

Spec == Init /\ [][Next]_vars

\* The event loop polls every spawned client task until its future resolves:
\* the lookups are synchronous, the hello read and every attempt end by their
\* timers, the peers send finitely many bytes and the pipe then returns.
\* No client is obliged to arrive.
Progress(c) ==
    \/ FromSocket(c)
    \/ ConnectNew(c)
    \/ RetriveDest(c)
    \/ ConnectWithData(c)
    \/ RaceAttemptOk(c)
    \/ RaceAttemptFail(c)
    \/ Serve(c)
    \/ PipeTx(c)
    \/ PipeRx(c)
    \/ ServeDone(c)
    \/ MainConnect(c)
    \/ MainAttemptDone(c)
    \/ MainServe(c)
    \/ MainDone(c)


\* One client in full: a hello followed by application data, arriving whole,
\* in part or late, spliced in whole or single-byte steps, over every order
\* of the upstream list.
HelloThenData == HelloSni \o <<9, 8>>

InitOne ==
    InitWith(Envs({<<>>, Http, HelloThenData},
                  {0, 2, Len(HelloSni), Len(HelloThenData)}, {0, 1}, {0, MaxRx},
                  {OrigOk, OrigV6}, 1..MaxParallel),
             AllLists)

NextOne == Step(1)

SpecOne == InitOne /\ [][NextOne]_vars

\* the same with the client's task polled until its future resolves
SpecOneLive == InitOne /\ [][NextOne]_vars /\ WF_vars(Progress(1))

\* The pre-connect steps of client.rs over every prefix the hello read can
\* return, up to and beyond the hello buffer, and every lookup result.
HelloStreams ==
    {<<>>, Http, HelloPlain, HelloSni, HelloEarly, HelloOld, HelloBadName,
     HelloThenData, HelloHuge}

HelloArrivals ==
    (0..Len(HelloThenData)) \cup (HelloBufLen - 1)..(HelloBufLen + 2)

InitHello ==
    InitWith(Envs(HelloStreams, HelloArrivals, {0}, {0}, OrigResults, 1..MaxParallel),
             AllLists)

NextHello ==
    \E c \in {1} :
        \/ Accept(c)
        \/ FromSocket(c)
        \/ RetriveDest(c)
        \/ ConnectNew(c)
        \/ ConnectWithData(c)

SpecHello == InitHello /\ [][NextHello]_vars

\* The race of one client against upstreams whose connects take a known
\* time: the first upstream has any latency on record and any outcome, the
\* others no latency and either all accept or all refuse at once.
TimedConns ==
    {[u \in ServerIds |-> IF u = 1 THEN {o} ELSE {[res |-> r, at |-> 0]}] :
        o \in ConnOutcomes, r \in {"Ok", "Err"}}

TimedDelays ==
    {[u \in ServerIds |-> IF u = 1 THEN d ELSE None] :
        d \in {None} \cup {Some(n) : n \in 0..MaxDelay}}

InitTimeout ==
    InitWith({[e EXCEPT !.delay = d, !.conn = k] :
                 e \in Envs({HelloPlain}, {Len(HelloPlain)}, {0}, {0}, {OrigOk},
                            1..MaxParallel),
                 d \in TimedDelays, k \in TimedConns},
             AllLists)

NextTimeout ==
    \E c \in {1} :
        \/ Accept(c)
        \/ FromSocket(c)
        \/ RetriveDest(c)
        \/ ConnectNew(c)
        \/ ConnectWithData(c)
        \/ RaceAttemptOk(c)
        \/ RaceAttemptFail(c)
        \/ MainConnect(c)
        \/ MainAttemptDone(c)

SpecTimeout == InitTimeout /\ [][NextTimeout]_vars

\* The monitor puts the shared list in another order while clients arrive
\* and race.
MonitorResort ==
    /\ \E p \in Perms(Len(infos)) :
          /\ infos' = [i \in 1..Len(infos) |-> infos[p[i]]]
          /\ infos' # infos
    /\ UNCHANGED <<stats, env, task>>

InitResort ==
    InitWith(Envs({HelloPlain}, {Len(HelloPlain)}, {0}, {0}, {OrigOk}, {MaxParallel}),
             AllLists)

\* a client's steps up to the end of its race
RaceStep(c) ==
    \/ Accept(c)
    \/ FromSocket(c)
    \/ RetriveDest(c)
    \/ ConnectNew(c)
    \/ ConnectWithData(c)
    \/ RaceAttemptOk(c)
    \/ RaceAttemptFail(c)
    \/ MainConnect(c)
    \/ MainAttemptDone(c)

NextResort == (\E c \in {1, 2} : RaceStep(c)) \/ MonitorResort

SpecResort == InitResort /\ [][NextResort]_vars

\* One client served after set_keepalive returned any of its results on
\* either socket of the pair.
InitKeepalive ==
    InitWith({[e EXCEPT !.keepalive = k] :
                 e \in Envs({Http}, {0, Len(Http)}, {0, 1}, {0, MaxRx},
                            {OrigOk}, {1}),
                 k \in KeepaliveResults},
             SortedLists)

SpecKeepalive == InitKeepalive /\ [][NextOne]_vars


\* ------------------------------------------------------------------ claims
Opens(c) == {i \in 1..Len(task[c].calls) : task[c].calls[i].op = "open"}
Closes(c) == {i \in 1..Len(task[c].calls) : task[c].calls[i].op = "close"}

Running(c) == task[c].pc \notin {"idle", "closed", "alldown", "dropped"}
Quiescent == \A c \in Clients : ~Running(c)

Splicing(u) == {c \in Clients : task[c].pc = "splicing" /\ task[c].server = u}
Won(c) == {u \in ServerIds : task[c].att[u] = "won"}

\* C1: per upstream, the conn_open calls not yet matched by a conn_close are
\* exactly those of the splices still running, so once no client task runs
\* the two counts are equal; a task that served made one conn_open and one
\* conn_close, whether the pipe returned Ok or Err.
C1_OpenCloseBalanced ==
    /\ \A u \in ServerIds :
          /\ stats[u].conn_open = stats[u].conn_close + Cardinality(Splicing(u))
          /\ Quiescent => stats[u].conn_open = stats[u].conn_close
    /\ \A c \in Clients :
          task[c].pc = "closed" =>
              /\ Cardinality(Opens(c)) = 1
              /\ Cardinality(Closes(c)) = 1
              /\ task[c].calls[1].op = "open"
              /\ task[c].calls[1].u = task[c].calls[2].u

\* two tasks served over the same upstream, one pipe failed and one did not
C1_Witness ==
    /\ Quiescent
    /\ \E u \in ServerIds :
          /\ stats[u].conn_open = 2
          /\ stats[u].conn_error = 1

\* C2: at most one attempt of a client ever holds a won socket; once the
\* client is committed (and while the splice copies) the won socket is the one
\* in the pair and no other attempt is in flight: each is failed, cancelled
\* (socket closed) or was never started.
C2_OneSocketSpliced ==
    \A c \in Clients :
        /\ Cardinality(Won(c)) <= 1
        /\ task[c].pc \in {"connected", "splicing"} =>
              /\ Won(c) = {task[c].right}
              /\ InFlight(task[c]) = {}
        /\ task[c].pc = "racing" => Won(c) = {}

\* a hedged race was won while another attempt was in flight, and the splice
\* has copied bytes
C2_Witness ==
    \E c \in Clients, u \in ServerIds :
        /\ task[c].pc = "splicing"
        /\ task[c].att[u] = "cancelled"
        /\ task[c].tx_bytes > 0

\* the client's ConnectedClient has been built
Committed(c) == task[c].pc \in {"connected", "splicing", "closed"}

\* C3 as stated: a ConnectedClient has been built for a client exactly when
\* one conn_open is on record for it.
C3_Original ==
    \A c \in Clients : Committed(c) <=> Cardinality(Opens(c)) = 1

\* C3 amended: conn_open is recorded by serve(), not by connect_server. A
\* recorded conn_open implies the ConnectedClient was built, and for the
\* upstream it holds; there is never more than one; one is on record from the
\* moment serve() starts the splice; a ConnectedClient that serve() has not
\* been called on yet has none.
C3_OpenRecordedByServe ==
    \A c \in Clients :
        /\ Cardinality(Opens(c)) <= 1
        /\ Opens(c) # {} =>
              /\ task[c].pc \in {"splicing", "closed"}
              /\ task[c].calls[1].op = "open"
              /\ task[c].calls[1].u = task[c].server
        /\ task[c].pc \in {"splicing", "closed"} => Cardinality(Opens(c)) = 1
        /\ task[c].pc = "connected" => Opens(c) = {}

\* a ConnectedClient built by client.rs's connect_server, serve() not yet called
C3_Witness ==
    \E c \in Clients :
        /\ task[c].entry = "lib"
        /\ task[c].pc = "connected"
        /\ Opens(c) = {}


\* C4: the pending prefix is exactly the bytes consumed from the client
\* socket and is what the dispatcher is given; the socket of the winning
\* attempt has received exactly the bytes consumed from the client socket so
\* far, in the client's order: the prefix first, then what the splice copied.
C4_PrefixFirst ==
    \A c \in Clients :
        /\ (task[c].pc \in {"withdata", "racing"} /\ IsSome(task[c].pending_data)) =>
              /\ task[c].lread >= 1
              /\ Unwrap(task[c].pending_data) = Take(env[c].stream, task[c].lread)
        /\ (task[c].pc = "racing" /\ task[c].wait_response) =>
              task[c].prefix = task[c].pending_data
        /\ task[c].pc \in {"connected", "splicing"} =>
              task[c].usock[task[c].right] = Take(env[c].stream, task[c].lread)

\* a hello was read as the prefix and the splice has forwarded later bytes
C4_Witness ==
    \E c \in Clients :
        /\ task[c].entry = "lib"
        /\ task[c].pc = "splicing"
        /\ env[c].arrive = Len(HelloSni)
        /\ task[c].tx_bytes > 0
        /\ task[c].lread = env[c].arrive + task[c].tx_bytes

\* C5: allow_parallel is only true with a pending prefix that
\* parse_client_hello accepts, which is the non-empty read.
C5_ParallelOnlyForHello ==
    \A c \in Clients :
        task[c].allow_parallel =>
            /\ IsSome(task[c].pending_data)
            /\ parse_client_hello(Unwrap(task[c].pending_data)).ok
            /\ task[c].hello_len >= 1
            /\ parse_client_hello(Take(env[c].stream, task[c].hello_len)).ok

C5_Witness ==
    \E c \in Clients :
        /\ task[c].pc = "withdata"
        /\ task[c].allow_parallel
        /\ IsSome(task[c].pending_data)

\* C6: after retrive_dest the prefix is present exactly when the read
\* returned bytes, and then holds the 1..2048 bytes read, parsed or not.
C6_PrefixIffBytesRead ==
    \A c \in Clients :
        task[c].pc = "withdata" =>
            /\ IsSome(task[c].pending_data) <=> task[c].hello_len >= 1
            /\ IsSome(task[c].pending_data) =>
                  /\ Len(Unwrap(task[c].pending_data)) = task[c].hello_len
                  /\ task[c].hello_len \in 1..HelloBufLen
                  /\ Unwrap(task[c].pending_data) =
                        Take(env[c].stream, task[c].hello_len)

\* a full buffer that does not parse is kept
C6_Witness ==
    \E c \in Clients :
        /\ task[c].pc = "withdata"
        /\ ~task[c].allow_parallel
        /\ task[c].hello_len = HelloBufLen
        /\ IsSome(task[c].pending_data)

\* C7: the hedged path hands the dispatcher min(n_parallel, list.len()) when
\* allow_parallel holds and 1 otherwise.
C7_EffectiveParallel ==
    \A c \in Clients :
        (task[c].pc = "racing" /\ task[c].wait_response) =>
            task[c].n_parallel =
                IF task[c].allow_parallel
                THEN Min(env[c].n_parallel, Len(task[c].list))
                ELSE 1

\* more parallelism asked for than the list has upstreams
C7_Witness ==
    \E c \in Clients :
        /\ task[c].pc = "racing"
        /\ task[c].wait_response
        /\ task[c].allow_parallel
        /\ env[c].n_parallel > Len(task[c].list)


Failed(c) == {u \in ServerIds : task[c].att[u] = "failed"}

\* C8: a client is only all-down once every upstream of its list snapshot
\* has been started and has failed; none is untried or in flight.
C8_AllDownAfterAll ==
    \A c \in Clients :
        task[c].pc = "alldown" =>
            /\ Len(task[c].list) >= 1
            /\ task[c].launched = task[c].list
            /\ \A u \in Range(task[c].list) : task[c].att[u] = "failed"
            /\ InFlight(task[c]) = {}

C8_Witness ==
    \E c \in Clients :
        /\ task[c].pc = "alldown"
        /\ Len(task[c].list) >= 2

\* the effective parallelism of a client's race: one attempt at a time in
\* main.rs and on the single-attempt path, C7's k on the hedged path
EffectiveK(c) ==
    IF task[c].entry = "lib" /\ task[c].wait_response /\ task[c].allow_parallel
    THEN Min(env[c].n_parallel, Len(task[c].list))
    ELSE 1

\* C9: during a race at most k attempts are in flight; the attempts started
\* so far are the first ones of the list, in list order, k at the start and
\* one more per failure while the list lasts; every started attempt is in
\* flight or failed, and no upstream occurs twice.
C9_AtMostKInFlight ==
    \A c \in Clients :
        task[c].pc = "racing" =>
            /\ Cardinality(InFlight(task[c])) <= EffectiveK(c)
            /\ task[c].launched = Take(task[c].list, Len(task[c].launched))
            /\ Len(task[c].launched) =
                  Min(Len(task[c].list), EffectiveK(c) + Cardinality(Failed(c)))
            /\ InFlight(task[c]) \cup Failed(c) = Range(task[c].launched)
            /\ \A i, j \in 1..Len(task[c].list) :
                  i # j => task[c].list[i] # task[c].list[j]

\* a hedged race with more than one attempt in flight
C9_Witness ==
    \E c \in Clients :
        /\ task[c].pc = "racing"
        /\ EffectiveK(c) >= 2
        /\ Cardinality(InFlight(task[c])) = EffectiveK(c)

\* C10: a client has at most one conn_open, made for the upstream of its
\* pair, whose attempt is the one that won; before the splice, and when the
\* client was dropped or all upstreams were down, it has none, and an
\* all-down client takes no further step. Per upstream, the conn_open count
\* is the number of clients that committed to it and served.
C10_OpenOnlyForWinner ==
    /\ \A c \in Clients :
          /\ Cardinality(Opens(c)) <= 1
          /\ \A i \in Opens(c) :
                /\ task[c].calls[i].u = task[c].server
                /\ task[c].pc = "splicing" =>
                      task[c].att[task[c].calls[i].u] = "won"
          /\ task[c].pc \notin {"splicing", "closed"} => task[c].calls = <<>>
          /\ task[c].pc = "alldown" => ~ENABLED Step(c)
    /\ \A u \in ServerIds :
          stats[u].conn_open =
              Cardinality({c \in Clients : /\ task[c].pc \in {"splicing", "closed"}
                                           /\ task[c].server = u})

\* the winner is accounted, the upstream that failed or was cancelled is not
C10_Witness ==
    \E c \in Clients, u \in ServerIds :
        /\ task[c].pc = "splicing"
        /\ task[c].att[u] \in {"failed", "cancelled"}
        /\ stats[u].conn_open = 0
        /\ stats[task[c].server].conn_open = 1


\* the client's NewClient, NewClientWithData or ConnectedClient exists
HasDest(c) == task[c].pc \in {"new", "withdata", "racing", "connected", "splicing"}

\* the port of the connection that was intercepted, as the kernel reports it
InterceptedPort(c) ==
    IF IsSome(env[c].orig.dest4) THEN Unwrap(env[c].orig.dest4)
    ELSE Unwrap(env[c].orig.dest6)

\* what the parser makes of the bytes that arrived within the hello window
HelloOf(c) == parse_client_hello(Take(env[c].stream, ReadLen(env[c].arrive)))

\* C11: in every state of a client the destination's port is the port of the
\* intercepted connection; the destination is a host name only after a hello
\* was read that parses and carries a server_name, and is then that name; and
\* when the hello that was read parses with a server_name, the destination
\* held by NewClientWithData and handed to the dispatcher is (name, port).
C11_HostnameKeepsPort ==
    \A c \in Clients :
        HasDest(c) =>
            /\ task[c].dest.port = InterceptedPort(c)
            /\ task[c].dest.host[1] = "name" =>
                  /\ task[c].entry = "lib"
                  /\ task[c].lread >= 1
                  /\ HelloOf(c).ok
                  /\ IsSome(HelloOf(c).server_name)
                  /\ task[c].dest.host = <<"name", Unwrap(HelloOf(c).server_name)>>
            /\ ( /\ task[c].pc = "withdata" \/ (task[c].pc = "racing" /\ task[c].wait_response)
                 /\ task[c].hello_len >= 1
                 /\ HelloOf(c).ok
                 /\ IsSome(HelloOf(c).server_name) ) =>
                  task[c].dest =
                      Dest(<<"name", Unwrap(HelloOf(c).server_name)>>, InterceptedPort(c))

\* a committed client whose destination is the SNI name with the port of an
\* intercepted connection that is not the TLS port
C11_Witness ==
    \E c \in Clients :
        /\ task[c].pc \in {"connected", "splicing"}
        /\ task[c].dest.host[1] = "name"
        /\ task[c].dest.port = 80
        /\ InterceptedPort(c) = 80


\* the hello read returned nothing, or bytes the parser rejects
NoHello(c) == task[c].hello_len = 0 \/ ~HelloOf(c).ok

\* C12: after an empty hello read or a hello the parser rejects, the client
\* goes on as a NewClientWithData with allow_parallel false and the
\* destination from_socket resolved; the race it starts then has exactly one
\* attempt in flight at any time, on the upstreams in list order.
C12_NoHelloSingleAttempt ==
    \A c \in Clients :
        /\ (task[c].pc = "withdata" /\ NoHello(c)) =>
              /\ ~task[c].allow_parallel
              /\ task[c].dest = Unwrap(from_socket(env[c].orig))
              /\ task[c].dest.host[1] \in {"v4", "v6"}
        /\ (task[c].pc = "racing" /\ task[c].wait_response /\ NoHello(c)) =>
              /\ ~task[c].allow_parallel
              /\ task[c].dest = Unwrap(from_socket(env[c].orig))
              /\ task[c].n_parallel = 1
              /\ Cardinality(InFlight(task[c])) = 1

\* bytes that are no hello were read, hedging was asked for and the list has
\* several upstreams: the second attempt runs alone after the first failed
C12_Witness ==
    \E c \in Clients :
        /\ task[c].pc = "racing" /\ task[c].wait_response
        /\ task[c].hello_len >= 1 /\ ~HelloOf(c).ok
        /\ env[c].n_parallel >= 2
        /\ Cardinality(Failed(c)) = 1
        /\ Cardinality(InFlight(task[c])) = 1


\* the sum of f over the clients in S
RECURSIVE SumOver(_, _)
SumOver(S, f) ==
    IF S = {} THEN 0
    ELSE LET c == CHOOSE x \in S : TRUE
         IN f[c] + SumOver(S \ {c}, f)

\* the clients whose splice over upstream u has returned
ClosedOn(u) == {c \in Clients : task[c].pc = "closed" /\ task[c].server = u}

\* C13 as stated: a splice that ended with an I/O error resolved to Err and
\* left a conn_close with error = true, one that ended without error a
\* conn_close with error = false; and each upstream's tx / rx counters
\* include every byte the finished splices over it transferred, whether
\* they ended with an error or not.
C13_Original ==
    /\ \A c \in Clients :
          task[c].pc = "closed" =>
              /\ task[c].result \in {"Ok", "Err"}
              /\ \A i \in Closes(c) :
                    task[c].calls[i].error <=> task[c].result = "Err"
    /\ \A u \in ServerIds :
          /\ stats[u].tx >= SumOver(ClosedOn(u), [c \in Clients |-> task[c].tx_bytes])
          /\ stats[u].rx >= SumOver(ClosedOn(u), [c \in Clients |-> task[c].rx_bytes])


\* the splice of client c can copy, or has copied, bytes
SpliceIO(c) == ENABLED (PipeTx(c) \/ PipeRx(c))
SpliceBytes(c) == task[c].tx_bytes + task[c].rx_bytes

\* C14: while no conn_open is on record for a client its splice has copied
\* nothing and can copy nothing; once a conn_close is on record the splice has
\* returned and copies nothing more; the calls of a client are its conn_open
\* followed, after the splice, by its conn_close, both for the upstream of
\* its pair.
C14_OpenSpliceClose ==
    \A c \in Clients :
        /\ Opens(c) = {} => (SpliceBytes(c) = 0 /\ ~SpliceIO(c))
        /\ Closes(c) # {} => (task[c].pc = "closed" /\ ~SpliceIO(c))
        /\ task[c].pc = "splicing" => task[c].calls = <<OpenCall(task[c].server)>>
        /\ \A i \in Opens(c), j \in Closes(c) :
              /\ i < j
              /\ task[c].calls[i].u = task[c].calls[j].u

\* a splice that copied in both directions has returned and was closed
C14_Witness ==
    \E c \in Clients :
        /\ task[c].pc = "closed"
        /\ task[c].tx_bytes > 0 /\ task[c].rx_bytes > 0
        /\ Len(task[c].calls) = 2
        /\ task[c].calls[2].op = "close"


Terminal(c) == task[c].pc \in {"closed", "alldown", "dropped"}

\* C15: every client for which a conn_open is recorded eventually has a
\* conn_close recorded, and every accepted client eventually reaches a
\* terminal state (closed, all upstreams down, or dropped), given that the
\* event loop keeps polling the client's task.
C15_EventuallyClosed ==
    \A c \in Clients :
        /\ (Opens(c) # {}) ~> (Closes(c) # {})
        /\ (task[c].pc # "idle") ~> Terminal(c)

\* a client whose pipe failed after copying bytes has its conn_close on record
C15_Witness ==
    \E c \in Clients :
        /\ task[c].pc = "closed" /\ task[c].result = "Err"
        /\ task[c].tx_bytes > 0
        /\ Cardinality(Opens(c)) = 1 /\ Cardinality(Closes(c)) = 1


\* from_socket can build a NewClient from what the kernel reports
Resolvable(orig) == orig.peer_addr /\ (IsSome(orig.dest4) \/ IsSome(orig.dest6))

\* from_socket has run for the client
Looked(c) == task[c].entry = "lib" /\ task[c].lookups # <<>>

\* a client that was dropped has launched no attempt and made no accounting call
DroppedClean(c) ==
    task[c].pc = "dropped" =>
        /\ task[c].launched = <<>>
        /\ InFlight(task[c]) = {}
        /\ task[c].calls = <<>>

\* C16 as stated: the IPv6 lookup is made only if the IPv4 lookup failed; a
\* client whose lookups fail is dropped; a dropped client has launched no
\* attempt and has no conn_open.
C16_Original ==
    \A c \in Clients :
        /\ Looked(c) =>
              /\ task[c].lookups[1] = "v4"
              /\ "v6" \in Range(task[c].lookups) => ~IsSome(env[c].orig.dest4)
              /\ ~Resolvable(env[c].orig) => task[c].pc = "dropped"
        /\ DroppedClean(c)

\* the step that drops a client is taken by from_socket or by the hello read,
\* before any attempt, and touches no counter
DropStep(c) ==
    (task[c].pc # "dropped" /\ task'[c].pc = "dropped") =>
        /\ task[c].pc \in {"accepted", "new"}
        /\ task[c].launched = <<>>
        /\ InFlight(task[c]) = {}
        /\ task[c].calls = <<>>
        /\ task'[c].calls = <<>>
        /\ stats' = stats

\* C16 amended: from_socket makes both lookups, IPv4 then IPv6, whatever the
\* first returns, and uses the IPv6 result only if the IPv4 lookup failed;
\* without a peer address or with both lookups failed no NewClient is built
\* and the client is dropped; a failed hello read drops the NewClient; the
\* step that drops a client comes before any attempt is launched and records
\* no conn_open.
C16_DroppedBeforeConnect ==
    /\ [](\A c \in Clients :
            /\ Looked(c) =>
                  /\ task[c].lookups = <<"v4", "v6">>
                  /\ ~Resolvable(env[c].orig) => task[c].pc = "dropped"
                  /\ (HasDest(c) /\ task[c].dest.host[1] = "v6") =>
                        ~IsSome(env[c].orig.dest4)
                  /\ (HasDest(c) /\ IsSome(env[c].orig.dest4)) =>
                        task[c].dest.host[1] \in {"v4", "name"}
            /\ DroppedClean(c))
    /\ [][\A c \in Clients : DropStep(c)]_vars

\* both lookups were made and failed, and the client was dropped
C16_Witness ==
    \E c \in Clients :
        /\ task[c].pc = "dropped"
        /\ task[c].lookups = <<"v4", "v6">>
        /\ env[c].orig.peer_addr
        /\ ~IsSome(env[c].orig.dest4) /\ ~IsSome(env[c].orig.dest6)


\* the call of the dispatcher by Connectable for NewClient (from a NewClient)
\* and by Connectable for NewClientWithData
DispatchStep(c) ==
    /\ (task[c].pc = "new" /\ task'[c].pc = "racing") =>
          /\ task'[c].n_parallel = 1
          /\ ~task'[c].wait_response
          /\ task'[c].prefix = None
          /\ Cardinality(InFlight(task'[c])) = 1
    /\ (task[c].pc = "withdata" /\ task'[c].pc = "racing") =>
          /\ task'[c].wait_response
          /\ task'[c].prefix = task[c].pending_data
    /\ (task[c].pc = "racing" /\ task[c].entry = "lib" /\ task'[c].pc = "connected"
           /\ (task[c].n_parallel > 1 \/ Cardinality(InFlight(task[c])) > 1)) =>
          task[c].wait_response

\* C17: the single-attempt path calls the dispatcher with n_parallel = 1,
\* wait_response = false and no prefix, the hedged path with wait_response =
\* true and its pending data; so a race of client.rs without wait_response
\* has n_parallel = 1 and one attempt in flight, and whenever more than one
\* attempt can be or is in flight, wait_response is true, also in the step
\* that declares the winner.
C17_HedgedWaitsResponse ==
    /\ [](\A c \in Clients :
            (task[c].pc = "racing" /\ task[c].entry = "lib") =>
                /\ ~task[c].wait_response =>
                      /\ task[c].n_parallel = 1
                      /\ task[c].prefix = None
                      /\ Cardinality(InFlight(task[c])) = 1
                /\ (task[c].n_parallel > 1 \/ Cardinality(InFlight(task[c])) > 1) =>
                      task[c].wait_response)
    /\ [][\A c \in Clients : DispatchStep(c)]_vars

\* the single-attempt path was asked for more parallelism than one and the
\* list has several upstreams: one attempt runs, without wait_response
C17_Witness ==
    \E c \in Clients :
        /\ task[c].pc = "racing" /\ task[c].entry = "lib"
        /\ ~task[c].wait_response
        /\ env[c].n_parallel >= 2 /\ Len(task[c].list) >= 2
        /\ task[c].launched = <<task[c].list[1]>>


\* the time upstream u's attempt is to be given: max(3 s, 2 * delay), or 3 s
Wait(c, u) ==
    IF IsSome(env[c].delay[u])
    THEN Max(3, 2 * Unwrap(env[c].delay[u]))
    ELSE 3

\* the connect of upstream u can succeed within t seconds
ConnectsWithin(c, u, t) == \E o \in env[c].conn[u] : o.res = "Ok" /\ o.at <= t

\* the connect of upstream u can need more than t seconds or fail
FailsWithin(c, u, t) == \E o \in env[c].conn[u] : o.res = "Err" \/ o.at > t

\* C18: an attempt wins only if its connect succeeded within max(3 s, 2 *
\* delay), with no delay on record within 3 s; it is given up only if its
\* connect failed or took longer than that, never within 3 s of a connect
\* that succeeds; an attempt given up by its timer counts as failed: while
\* the race lasts the next upstream of the list has been started in its
\* place, and after the last one the client is all-down.
C18_AttemptTimeout ==
    \A c \in Clients :
        /\ \A u \in ServerIds :
              /\ task[c].att[u] = "won" => ConnectsWithin(c, u, Wait(c, u))
              /\ task[c].att[u] = "failed" => FailsWithin(c, u, Wait(c, u))
              /\ task[c].att[u] = "failed" => FailsWithin(c, u, MinWaitSecs)
        /\ task[c].pc = "racing" =>
              /\ InFlight(task[c]) # {}
              /\ Len(task[c].launched) =
                    Min(Len(task[c].list), EffectiveK(c) + Cardinality(Failed(c)))
        /\ task[c].pc = "alldown" => Failed(c) = Range(task[c].list)

\* the first upstream's connect would have succeeded, but later than the
\* doubled latency on record allows; it was given up and the next one started
C18_Witness ==
    \E c \in Clients :
        /\ task[c].pc = "racing"
        /\ IsSome(env[c].delay[1]) /\ 2 * Unwrap(env[c].delay[1]) > MinWaitSecs
        /\ \A o \in env[c].conn[1] : o.res = "Ok" /\ o.at > Wait(c, 1)
        /\ task[c].att[1] = "failed"
        /\ Len(task[c].launched) = 2


\* the client holds a list snapshot
HoldsList(c) == task[c].pc \in {"accepted", "new", "withdata", "racing", "alldown"}

\* what a step may do to client c's snapshot: it is taken from the shared
\* list when the client is accepted and then stays as it is, and a step that
\* re-orders the shared list changes no client task
SnapshotStep(c) ==
    /\ (task[c].pc = "idle" /\ task'[c].pc # "idle") => task'[c].list = infos
    /\ (HoldsList(c) /\ HoldsList(c)') => task'[c].list = task[c].list
    /\ infos' # infos => task'[c] = task[c]

\* C19: a client's attempts are started in the order of the list as it was
\* when the client was accepted: the upstreams started so far are the first
\* ones of that snapshot, in its order, and an all-down client has tried
\* exactly the snapshot's upstreams; the snapshot does not change while the
\* client holds it, whatever order the monitor gives the shared list.
C19_SnapshotOrder ==
    /\ [](\A c \in Clients :
            /\ task[c].pc \in {"racing", "alldown"} =>
                  /\ task[c].launched = Take(task[c].list, Len(task[c].launched))
                  /\ InFlight(task[c]) \cup Failed(c) = Range(task[c].launched)
            /\ task[c].pc = "alldown" => task[c].launched = task[c].list)
    /\ [][\A c \in Clients : SnapshotStep(c)]_vars

\* the monitor reversed the order during the race; the second attempt went
\* to the snapshot's second upstream, which is not the shared list's
C19_Witness ==
    \E c \in Clients :
        /\ task[c].pc = "racing"
        /\ Len(task[c].launched) = 2
        /\ task[c].att[task[c].list[1]] = "failed"
        /\ task[c].launched[2] = task[c].list[2]
        /\ infos[2] # task[c].list[2]


KeepaliveFailed(c) == set_keepalive_both(env[c].keepalive) = "Err"

\* the bytes the splice of client c has still to copy
SpliceLeft(c) ==
    (Len(env[c].stream) - task[c].lread) + (env[c].reply - task[c].rx_bytes)

\* C20: whatever set_keepalive returned on the two sockets, a committed
\* client is served: the serve step is enabled and leads to the splice with
\* its conn_open recorded, the splice copies while bytes are left, and the
\* closed client has its conn_open and its conn_close on record, with the
\* error flag of the pipe's result; no client is dropped after it committed.
C20_KeepaliveNotFatal ==
    \A c \in Clients :
        /\ task[c].pc = "connected" => ENABLED (Serve(c) \/ MainServe(c))
        /\ task[c].pc = "splicing" =>
              /\ task[c].calls = <<OpenCall(task[c].server)>>
              /\ stats[task[c].server].conn_open >= 1
              /\ SpliceLeft(c) > 0 => SpliceIO(c)
              /\ ENABLED (ServeDone(c) \/ MainDone(c))
        /\ task[c].pc = "closed" =>
              /\ Len(task[c].calls) = 2
              /\ task[c].calls[1] = OpenCall(task[c].server)
              /\ task[c].calls[2].op = "close"
              /\ task[c].calls[2].u = task[c].server
              /\ task[c].entry = "lib" =>
                    (task[c].calls[2].error <=> task[c].result = "Err")
              /\ stats[task[c].server].conn_close >= 1
        /\ task[c].pc = "dropped" => (task[c].server = 0 /\ task[c].calls = <<>>)

\* set_keepalive failed on the upstream socket only; the client was served
\* to the end and its pipe returned Ok after copying in both directions
C20_Witness ==
    \E c \in Clients :
        /\ env[c].keepalive = [left |-> "Ok", right |-> "Err"]
        /\ task[c].pc = "closed" /\ task[c].result = "Ok"
        /\ task[c].tx_bytes > 0 /\ task[c].rx_bytes > 0
        /\ Len(task[c].calls) = 2

====
